---- MODULE Spec2Model ----
(***************************************************************************)
(* Model of the Google Maps lead scraper: maps_scraper.py (browser         *)
(* automation, scrolling, list-view and detail-panel extraction) and       *)
(* api.py (the in-memory job table and the background task run_scraper).   *)
(*                                                                         *)
(* Texts (names, labels, URLs, phone numbers, messages) are sequences of   *)
(* characters, so that '' is <<>> and str.strip() is computed.  Python's   *)
(* None is <<>> and a present value x is <<x>> in the job fields that may  *)
(* be None.  The record fields category, rating and reviews are copied     *)
(* from the page and read by no step, and are left out of the records.     *)
(***************************************************************************)
EXTENDS Integers, Sequences, FiniteSets, TLC

\* ----------------------------------------------------------------- bounds
MaxListings == 2        \* listing nodes in the feed
MaxHeight == 1          \* feed heights are 0..MaxHeight
MaxChanges == 2         \* times the feed height changes before it settles
SmallDetailLimit == 1   \* a detail_limit below the default
MaxDedupLen == 3        \* length of the lists given to deduplicate_results

\* ------------------------------------------------------ program constants
StableChecks == 5
LastHeightInit == 0
ProgressEvery == 5
DefaultDetailLimit == 10

JobId == "job1"
ErrMsg == <<"e">>
KeyErr == <<"k">>       \* str(KeyError(job_id))
None == <<>>
Some(x) == <<x>>

VARIABLES
    jobs,            \* api.jobs: job id -> job record
    files,           \* CSV files present in leads/
    remove_failed,   \* delete_job's os.remove threw (and was ignored)
    caller,          \* who invoked scrape_maps_with_progress
    fast_mode, detail_limit, has_callback,   \* its arguments
    events,          \* the events the callback was invoked with
    pc,              \* position of the run
    exc,             \* the exception in flight or caught at the top level
    feed,            \* "unknown", "found", "missing": the bounded wait's outcome
    browser,         \* "none", "running", "quit"
    quit_calls,      \* calls of driver.quit()
    last_height, scroll_count, no_change_count,   \* locals of scroll_results
    heights,         \* every height scroll_results measured, in order
    changes,         \* times the feed height changed so far
    page,            \* the listing nodes of the loaded feed
    results,         \* the result list of the scrape
    idx,             \* the listing the enrichment / detail loop is at
    origin,          \* per result: the listing node it was extracted from
    enriched,        \* per result: times the enrichment pass updated it
    clicked,         \* listings the enrichment / detail loop has handled
    failed,          \* listings whose click or detail extraction failed
    primary_count,   \* records of the selector-based extraction
    fallback_ran,    \* whether the aria-label fallback ran
    dd_in, dd_out    \* input and output of deduplicate_results

vars == <<jobs, files, remove_failed, caller, fast_mode, detail_limit,
          has_callback, events,
          pc, exc, feed, browser, quit_calls, last_height, scroll_count,
          no_change_count, heights, changes, page, results, idx, origin,
          enriched, clicked, failed, primary_count, fallback_ran,
          dd_in, dd_out>>

jobVars == <<jobs, files, remove_failed>>
argVars == <<caller, fast_mode, detail_limit, has_callback>>
scrollVars == <<last_height, scroll_count, no_change_count, heights, changes>>
listVars == <<page, results, idx, origin, enriched, clicked, failed,
              primary_count, fallback_ran>>
ddVars == <<dd_in, dd_out>>

\* What scrape_maps_with_progress itself reads and writes: its position, its
\* exception, the browser, the page and the result list.
coreVars == <<pc, exc, feed, browser, quit_calls, scrollVars, listVars>>

\* What no step of scrape_maps_with_progress touches.
outerVars == <<files, remove_failed, argVars, ddVars>>

Min(a, b) == IF a < b THEN a ELSE b

\* ------------------------------------------------------------------ texts
RECURSIVE LStrip(_)
LStrip(s) == IF s # <<>> /\ Head(s) = " " THEN LStrip(Tail(s)) ELSE s

RECURSIVE RStrip(_)
RStrip(s) ==
    IF s # <<>> /\ s[Len(s)] = " " THEN RStrip(SubSeq(s, 1, Len(s) - 1)) ELSE s

Strip(s) == RStrip(LStrip(s))

\* ---------------------------------------------------------------- the job
NewJob ==
    [status |-> "pending", phase |-> "pending", total_leads |-> None,
     total_listings |-> 0, current |-> 0, collected |-> 0, scroll_count |-> 0,
     csv_file |-> None, results |-> None, error |-> None, logs |-> <<>>]

NoData == [count |-> 0, total |-> 0, current |-> 0, collected |-> 0]

ProgressCallback(js, event, data) ==
    IF JobId \notin DOMAIN js THEN js
    ELSE LET j == [js[JobId] EXCEPT !.logs = Append(@, event)]
         IN  [js EXCEPT ![JobId] =
                CASE event = "scrolling" ->
                       [j EXCEPT !.phase = "scrolling",
                                 !.scroll_count = data.count]
                  [] event = "listings_found" ->
                       [j EXCEPT !.phase = "extracting",
                                 !.total_listings = data.total]
                  [] event = "extracting" ->
                       [j EXCEPT !.phase = "extracting",
                                 !.current = data.current,
                                 !.total_listings = data.total,
                                 !.collected = data.collected]
                  [] OTHER -> j]

\* `if callback: callback(event, data)`: the job's callback is
\* progress_callback; a direct caller's callback only observes.
CbJobs(js, event, data) ==
    IF has_callback /\ caller = "api" THEN ProgressCallback(js, event, data)
    ELSE js

CbEvents(ev, event) == IF has_callback THEN Append(ev, event) ELSE ev

Callback(event, data) ==
    /\ jobs' = CbJobs(jobs, event, data)
    /\ events' = CbEvents(events, event)

\* --------------------------------------------------------------- the page
\* A listing node of the feed: its card (name text, website indicator,
\* address text; `raises` when parsing the card throws) and its anchor
\* a.hfpxzc (aria-label, href).  Every listing node carries its anchor, so
\* the anchors Selenium finds and the cards the parser finds are the same
\* nodes.
Node(name, ind, address, aria, href, raises) ==
    [name |-> name, ind |-> ind, address |-> address, aria |-> aria,
     href |-> href, raises |-> raises]

NamedNodes ==
    { Node(<<"A">>, FALSE, <<>>, <<"A">>, <<"h">>, FALSE),
      Node(<<" ", "A">>, TRUE, <<"s">>, <<"A">>, <<"h">>, FALSE),
      Node(<<"B">>, TRUE, <<>>, <<"B">>, <<"h">>, FALSE) }

NamelessNodes ==
    { Node(<<>>, FALSE, <<>>, <<>>, <<"h">>, FALSE),
      Node(<<" ">>, FALSE, <<>>, <<"A">>, <<"h">>, FALSE),
      Node(<<>>, TRUE, <<>>, <<"B">>, <<>>, FALSE) }

RaisingNodes ==
    { Node(<<"A">>, FALSE, <<>>, <<"A">>, <<"h">>, TRUE) }

Nodes == NamedNodes \cup NamelessNodes \cup RaisingNodes

Pages == UNION { [1..n -> Nodes] : n \in 0..MaxListings }

\* ------------------------------------------------- extract_from_list_view
\* Mutant of NameMissing: the empty-name check is gone.
NameNeverMissing(name) == FALSE

\* `if not name: continue`
NameMissing(name) == name = <<>>

\* The card yields a record: nothing in its try block threw and its
\* stripped name is not empty.
Emits(n) == ~n.raises /\ ~NameMissing(Strip(n.name))

ListRecord(n) ==
    [business_name |-> Strip(n.name), address |-> n.address, phone |-> <<>>,
     website |-> <<>>, has_website |-> IF n.ind THEN "Yes" ELSE "Unknown",
     google_maps_link |-> n.href]

\* `if aria_label:` in the fallback
HasLabel(n) == n.aria # <<>>

FallbackRecord(n) ==
    [business_name |-> n.aria, address |-> <<>>, phone |-> <<>>,
     website |-> <<>>, has_website |-> "Unknown", google_maps_link |-> n.href]

\* The listings, in page order, for which the loop appends a record.
RECURSIVE PrimaryIdx(_, _)
PrimaryIdx(pg, i) ==
    IF i > Len(pg) THEN <<>>
    ELSE (IF Emits(pg[i]) THEN <<i>> ELSE <<>>) \o PrimaryIdx(pg, i + 1)

RECURSIVE FallbackIdx(_, _)
FallbackIdx(pg, i) ==
    IF i > Len(pg) THEN <<>>
    ELSE (IF HasLabel(pg[i]) THEN <<i>> ELSE <<>>) \o FallbackIdx(pg, i + 1)

\* Mutant of FallbackNeeded: the fallback runs after every extraction.
FallbackAlways(primary) == TRUE

\* `if not results:` before the fallback
FallbackNeeded(primary) == primary = <<>>

\* source_ok: driver.page_source and the parse did not throw (when they do,
\* the outer except returns the empty list).
ExtractFromListView(pg, source_ok) ==
    LET pix == PrimaryIdx(pg, 1)
        fix == FallbackIdx(pg, 1)
        fb  == FallbackNeeded(pix)
    IN  IF ~source_ok
        THEN [results |-> <<>>, origin |-> <<>>, primary_count |-> 0,
              fallback_ran |-> FALSE]
        ELSE [results |->
                [k \in 1..Len(pix) |-> ListRecord(pg[pix[k]])] \o
                (IF fb THEN [k \in 1..Len(fix) |-> FallbackRecord(pg[fix[k]])]
                 ELSE <<>>),
              origin |-> pix \o (IF fb THEN fix ELSE <<>>),
              primary_count |-> Len(pix),
              fallback_ran |-> fb]

\* --------------------------------------------------- extract_business_info
\* The detail panel a click on listing i opens.  Its h1 shows the business
\* the anchor is labelled with, or is missing; the address button and the
\* authority link are present or not; the phone is the listing's own.
Panels(i, n) ==
    { [title |-> t, address |-> d, phone |-> <<i>>, website |-> w] :
        t \in {n.aria, <<>>}, d \in {<<>>, <<"d">>}, w \in {<<>>, <<"w">>} }

\* Mutant of DetailHasWebsite: the flag does not look at the URL.
DetailHasWebsiteAlways(website) == "Yes"

\* 'Yes' if website else 'No'
DetailHasWebsite(website) == IF website # <<>> THEN "Yes" ELSE "No"

\* None, or the record of the panel (google_maps_link is driver.current_url).
ExtractBusinessInfo(panel, i) ==
    IF NameMissing(Strip(panel.title)) THEN None
    ELSE Some([business_name |-> Strip(panel.title),
               address |-> panel.address, phone |-> panel.phone,
               website |-> panel.website,
               has_website |-> DetailHasWebsite(panel.website),
               google_maps_link |-> <<"u">>])

\* The first result whose business_name equals the panel's, 0 when none.
RECURSIVE FirstMatch(_, _, _)
FirstMatch(res, name, k) ==
    IF k > Len(res) THEN 0
    ELSE IF res[k].business_name = name THEN k
    ELSE FirstMatch(res, name, k + 1)

\* `for r in results: if r['business_name'] == info['business_name']: ...; break`
EnrichRecord(r, info) ==
    [r EXCEPT !.phone = info.phone, !.website = info.website,
              !.has_website = info.has_website,
              !.address = IF info.address # <<>> THEN info.address ELSE @]

\* ------------------------------------------------------ deduplicate_results
RECURSIVE DedupFrom(_, _, _)
DedupFrom(rs, seen, k) ==
    IF k > Len(rs) THEN <<>>
    ELSE LET key == <<rs[k].business_name, rs[k].address>>
         IN  IF key \notin seen
             THEN <<rs[k]>> \o DedupFrom(rs, seen \cup {key}, k + 1)
             ELSE DedupFrom(rs, seen, k + 1)

\* Mutant of DeduplicateResults: the key is the business name alone.
RECURSIVE DedupByNameFrom(_, _, _)
DedupByNameFrom(rs, seen, k) ==
    IF k > Len(rs) THEN <<>>
    ELSE IF rs[k].business_name \notin seen
         THEN <<rs[k]>> \o
              DedupByNameFrom(rs, seen \cup {rs[k].business_name}, k + 1)
         ELSE DedupByNameFrom(rs, seen, k + 1)

DedupByName(rs) == DedupByNameFrom(rs, {}, 1)

DeduplicateResults(rs) == DedupFrom(rs, {}, 1)

\* ------------------------------------------------------------ scroll_results
\* Mutants of NoChangeAfter: the count survives a changed height; the count
\* is reset on every iteration.
NoChangeNeverReset(new_height, last, count) ==
    IF new_height = last THEN count + 1 ELSE count

NoChangeAlwaysReset(new_height, last, count) == 0

\* no_change_count after comparing the new measurement with last_height
NoChangeAfter(new_height, last, count) ==
    IF new_height = last THEN count + 1 ELSE 0

\* `if no_change_count >= 5` inside `if new_height == last_height`
ScrollDone(new_height, last, count) ==
    new_height = last /\ count >= StableChecks

\* No run of the loop makes this many iterations: the height changes at
\* most MaxChanges times and every unchanged stretch ends the loop at
\* StableChecks.  The guard keeps the counters finite.
ScrollCap == StableChecks * (MaxChanges + 2)

\* ------------------------------------------------------------------- Init
BaseInit ==
    /\ jobs = <<>>
    /\ files = {}
    /\ remove_failed = FALSE
    /\ caller = "none"
    /\ fast_mode = TRUE
    /\ detail_limit = DefaultDetailLimit
    /\ has_callback = FALSE
    /\ events = <<>>
    /\ exc = None
    /\ feed = "unknown"
    /\ browser = "none"
    /\ quit_calls = 0
    /\ last_height = 0
    /\ scroll_count = 0
    /\ no_change_count = 0
    /\ heights = <<>>
    /\ changes = 0
    /\ page = <<>>
    /\ results = <<>>
    /\ idx = 0
    /\ origin = <<>>
    /\ enriched = <<>>
    /\ clicked = {}
    /\ failed = {}
    /\ primary_count = 0
    /\ fallback_ran = FALSE

Init ==
    /\ BaseInit
    /\ pc = "idle"
    /\ dd_in = <<>>
    /\ dd_out = <<>>

\* ------------------------------------------------------------ entry points
\* POST /scrape: the job is created pending and run_scraper is queued.
StartScrape ==
    /\ pc = "idle"
    /\ JobId \notin DOMAIN jobs
    /\ jobs' = (JobId :> NewJob)
    /\ caller' = "api"
    /\ pc' = "queued"
    /\ UNCHANGED <<files, remove_failed, fast_mode, detail_limit, has_callback,
                   events, exc, feed, browser, quit_calls>>
    /\ UNCHANGED <<scrollVars, listVars, ddVars>>

\* run_scraper up to its call of scrape_maps_with_progress(query, callback):
\* fast_mode and detail_limit take their defaults.  Its first statement
\* reads jobs[job_id] outside the try: with the job deleted the KeyError
\* ends the task.
RunScraperBegin ==
    /\ pc = "queued"
    /\ IF JobId \in DOMAIN jobs
       THEN /\ jobs' = [jobs EXCEPT ![JobId] =
                          [@ EXCEPT !.status = "running", !.phase = "starting",
                                    !.logs = Append(@, "started")]]
            /\ has_callback' = TRUE
            /\ pc' = "called"
       ELSE /\ pc' = "crashed"
            /\ UNCHANGED <<jobs, has_callback>>
    /\ fast_mode' = TRUE
    /\ detail_limit' = DefaultDetailLimit
    /\ UNCHANGED <<files, remove_failed, caller, events, exc, feed, browser,
                   quit_calls>>
    /\ UNCHANGED <<scrollVars, listVars, ddVars>>

DetailLimits == {0, SmallDetailLimit, DefaultDetailLimit}

\* scrape_maps_with_progress called directly (scrape_maps, a library user),
\* with or without a callback.
DirectCall ==
    /\ pc = "idle"
    /\ \E fm \in BOOLEAN, dl \in DetailLimits, cb \in BOOLEAN :
         /\ fast_mode' = fm
         /\ detail_limit' = dl
         /\ has_callback' = cb
    /\ caller' = "direct"
    /\ pc' = "called"
    /\ UNCHANGED <<jobs, files, remove_failed, events, exc, feed, browser,
                   quit_calls>>
    /\ UNCHANGED <<scrollVars, listVars, ddVars>>

\* ----------------------------------------------- scrape_maps_with_progress
\* Every step is written as what the function does to its own state (the
\* ...Core definition: the statements left when each `if callback:` block
\* is taken out) together with the callback invocations of that step.

\* driver = setup_driver(), outside the try: webdriver.Chrome() launches the
\* browser or throws, and the execute_script after it may throw with the
\* browser already running.
SetupDriverCore ==
    /\ pc = "called"
    /\ \E outcome \in {"ok", "launch_fails", "script_fails"} :
         /\ browser' = IF outcome = "launch_fails" THEN "none" ELSE "running"
         /\ pc' = IF outcome = "ok" THEN "navigate" ELSE "raised"
         /\ exc' = IF outcome = "ok" THEN None ELSE Some(ErrMsg)
    /\ UNCHANGED <<feed, quit_calls, scrollVars, listVars>>

\* callback("browser_starting"); driver = setup_driver().
SetupDriver ==
    /\ SetupDriverCore
    /\ Callback("browser_starting", NoData)
    /\ UNCHANGED outerVars

\* driver.get(maps_url); handle_consent swallows what it throws.
NavigateCore ==
    /\ pc = "navigate"
    /\ \/ /\ pc' = "wait_feed"
          /\ exc' = exc
       \/ /\ pc' = "except"
          /\ exc' = Some(ErrMsg)
    /\ UNCHANGED <<feed, browser, quit_calls, scrollVars, listVars>>

\* callback("navigating"); driver.get(maps_url).
Navigate ==
    /\ NavigateCore
    /\ Callback("navigating", NoData)
    /\ UNCHANGED outerVars

\* WebDriverWait(driver, 20).until(feed present): on any exception
\* `return []` (through the finally).
WaitFeedCore ==
    /\ pc = "wait_feed"
    /\ \/ /\ feed' = "found"
          /\ pc' = "feed_found"
       \/ /\ feed' = "missing"
          /\ pc' = "finally"
    /\ UNCHANGED <<exc, browser, quit_calls, scrollVars, listVars>>

\* callback("waiting"); the bounded wait; callback("error") when it failed.
WaitFeed ==
    /\ WaitFeedCore
    /\ IF feed' = "found"
       THEN Callback("waiting", NoData)
       ELSE /\ jobs' = CbJobs(CbJobs(jobs, "waiting", NoData), "error", NoData)
            /\ events' = CbEvents(CbEvents(events, "waiting"), "error")
    /\ UNCHANGED outerVars

\* find_element(feed); scroll_results starts.
BeginScrollCore ==
    /\ pc = "feed_found"
    /\ \/ /\ pc' = "scroll"
          /\ exc' = exc
       \/ /\ pc' = "except"
          /\ exc' = Some(ErrMsg)
    /\ last_height' = LastHeightInit
    /\ scroll_count' = 0
    /\ no_change_count' = 0
    /\ UNCHANGED <<feed, browser, quit_calls, heights, changes, listVars>>

\* callback("scrolling", count 0); find_element(feed).
BeginScroll ==
    /\ BeginScrollCore
    /\ Callback("scrolling", NoData)
    /\ UNCHANGED outerVars

\* The measurement of one iteration of `while True` in scroll_results and
\* the loop variables after it.
Measure(new_height) ==
    LET ncc == NoChangeAfter(new_height, last_height, no_change_count)
    IN  /\ new_height # last_height => changes < MaxChanges
        /\ changes' = IF new_height # last_height THEN changes + 1
                      ELSE changes
        /\ heights' = Append(heights, new_height)
        /\ no_change_count' = ncc
        /\ IF ScrollDone(new_height, last_height, ncc)
           THEN UNCHANGED <<last_height, scroll_count>>
           ELSE /\ last_height' = new_height
                /\ scroll_count' = scroll_count + 1

\* One iteration of `while True` in scroll_results.
ScrollStepCore ==
    /\ pc = "scroll"
    /\ scroll_count < ScrollCap
    /\ \/ \* driver.execute_script throws
          /\ pc' = "except"
          /\ exc' = Some(ErrMsg)
          /\ UNCHANGED scrollVars
       \/ \E new_height \in 0..MaxHeight :
            /\ Measure(new_height)
            /\ exc' = exc
            /\ pc' = IF ScrollDone(new_height, last_height, no_change_count')
                     THEN "count" ELSE "scroll"
    /\ UNCHANGED <<feed, browser, quit_calls, listVars>>

\* The callback invocation of an iteration that did not throw:
\* "scroll_complete" at the break, "scrolling" every 5th scroll.
ScrollReports ==
    pc' = "count" \/ (pc' = "scroll" /\ scroll_count' % ProgressEvery = 0)

ScrollStep ==
    /\ ScrollStepCore
    /\ IF pc' = "count" THEN Callback("scroll_complete", NoData)
       ELSE IF ScrollReports
            THEN Callback("scrolling", [NoData EXCEPT !.count = scroll_count'])
            ELSE UNCHANGED <<jobs, events>>
    /\ UNCHANGED outerVars

\* The listings the enrichment pass clicks: listings[:detail_limit], entered
\* only `if detail_limit > 0 and len(listings) > 0`.
EnrichLimit(dl, n) == IF dl > 0 THEN Min(dl, n) ELSE 0

\* The listings the detail loop clicks:
\* `if detail_limit > 0 and i >= detail_limit: break`.
DetailLoopLimit(dl, n) == IF dl > 0 THEN Min(dl, n) ELSE n

\* Mutant of AfterFailure: the exception ends the loop.
AbortAfterFailure(i, last) == last + 1

\* The loop index after listing i threw inside the per-listing try
\* (`except Exception: continue`).
AfterFailure(i, last) == i + 1

\* The frame of scroll_results is gone.
DropScrollFrame ==
    /\ last_height' = 0
    /\ scroll_count' = 0
    /\ no_change_count' = 0
    /\ heights' = <<>>
    /\ changes' = 0

\* listings = driver.find_elements(...) found the listing nodes pg.
FoundListings(pg) ==
    /\ page' = pg
    /\ idx' = 1
    /\ DropScrollFrame
    /\ UNCHANGED <<results, origin, enriched, clicked, failed, primary_count,
                   fallback_ran>>

\* listings = driver.find_elements(...), which may throw.
CountListingsCore ==
    /\ pc = "count"
    /\ \/ /\ pc' = "except"
          /\ exc' = Some(ErrMsg)
          /\ DropScrollFrame
          /\ UNCHANGED listVars
       \/ \E pg \in Pages :
            /\ FoundListings(pg)
            /\ exc' = exc
            /\ pc' = IF fast_mode THEN "extract"
                     ELSE IF DetailLoopLimit(detail_limit, Len(pg)) >= 1
                          THEN "detail" ELSE "finally"
    /\ UNCHANGED <<feed, browser, quit_calls>>

\* listings = driver.find_elements(...); callback("listings_found").
CountListings ==
    /\ CountListingsCore
    /\ IF pc' = "except" THEN UNCHANGED <<jobs, events>>
       ELSE Callback("listings_found", [NoData EXCEPT !.total = Len(page')])
    /\ UNCHANGED outerVars

\* results = extract_from_list_view(driver, callback) returned x; the
\* enrichment pass is entered when it has listings to click.
Extracted(x) ==
    /\ results' = x.results
    /\ origin' = x.origin
    /\ enriched' = [k \in 1..Len(x.results) |-> 0]
    /\ primary_count' = x.primary_count
    /\ fallback_ran' = x.fallback_ran
    /\ idx' = 1
    /\ UNCHANGED <<page, clicked, failed>>

ExtractWith(source_ok) ==
    /\ pc = "extract"
    /\ Extracted(ExtractFromListView(page, source_ok))
    /\ pc' = IF EnrichLimit(detail_limit, Len(page)) >= 1 THEN "enrich"
             ELSE "finally"
    /\ UNCHANGED <<exc, feed, browser, quit_calls, scrollVars>>

ExtractListViewCore == \E source_ok \in BOOLEAN : ExtractWith(source_ok)

\* Fast mode: callback("extracting_fast"); results =
\* extract_from_list_view(driver, callback), which reports
\* "extracting_list" when the page source was read; then
\* callback("enriching") when the enrichment pass is entered.  (Its
\* "extracting" report every 10th listing needs 10 listings.)
ExtractListView ==
    /\ \E source_ok \in BOOLEAN :
         LET j1 == CbJobs(jobs, "extracting_fast", NoData)
             e1 == CbEvents(events, "extracting_fast")
             j2 == IF source_ok THEN CbJobs(j1, "extracting_list", NoData)
                   ELSE j1
             e2 == IF source_ok THEN CbEvents(e1, "extracting_list") ELSE e1
         IN  /\ ExtractWith(source_ok)
             /\ jobs' = IF pc' = "enrich" THEN CbJobs(j2, "enriching", NoData)
                        ELSE j2
             /\ events' = IF pc' = "enrich" THEN CbEvents(e2, "enriching")
                          ELSE e2
    /\ UNCHANGED outerVars

\* The enrichment pass goes to listing i, or is over.
EnrichGoes(i) ==
    /\ idx' = i
    /\ pc' = IF i > EnrichLimit(detail_limit, Len(page)) THEN "finally"
             ELSE "enrich"
    /\ clicked' = clicked \cup {idx}
    /\ UNCHANGED <<exc, feed, browser, quit_calls, scrollVars, page, origin,
                   primary_count, fallback_ran>>

\* The click on listing idx (or scrollIntoView) throws.
EnrichClickFails ==
    /\ pc = "enrich"
    /\ failed' = failed \cup {idx}
    /\ EnrichGoes(AfterFailure(idx, EnrichLimit(detail_limit, Len(page))))
    /\ UNCHANGED <<results, enriched>>

\* The click opened panel: extract_business_info, update the first result
\* of that name.
EnrichFromPanel(panel) ==
    /\ pc = "enrich"
    /\ LET info == ExtractBusinessInfo(panel, idx)
           k == IF info = None THEN 0
                ELSE FirstMatch(results, info[1].business_name, 1)
       IN  /\ failed' = IF info = None THEN failed \cup {idx} ELSE failed
           /\ results' = IF k = 0 THEN results
                         ELSE [results EXCEPT ![k] = EnrichRecord(@, info[1])]
           /\ enriched' = IF k = 0 THEN enriched
                          ELSE [enriched EXCEPT ![k] = @ + 1]
    /\ EnrichGoes(idx + 1)

EnrichStepCore ==
    /\ pc = "enrich"
    /\ \/ EnrichClickFails
       \/ \E panel \in Panels(idx, page[idx]) : EnrichFromPanel(panel)

\* One iteration of the enrichment pass: scroll listing idx into view, click
\* it, extract_business_info, update the first result of that name,
\* callback("enriching_progress").
EnrichStep ==
    /\ pc = "enrich"
    /\ \/ /\ EnrichClickFails
          /\ UNCHANGED <<jobs, events>>
       \/ /\ \E panel \in Panels(idx, page[idx]) : EnrichFromPanel(panel)
          /\ Callback("enriching_progress", NoData)
    /\ UNCHANGED outerVars

\* The detail loop goes to listing i, or is over.
DetailGoes(i) ==
    /\ idx' = i
    /\ pc' = IF i > DetailLoopLimit(detail_limit, Len(page)) THEN "finally"
             ELSE "detail"
    /\ clicked' = clicked \cup {idx}
    /\ UNCHANGED <<exc, feed, browser, quit_calls, scrollVars, page,
                   primary_count, fallback_ran>>

\* The click on listing idx (or scrollIntoView) throws.
DetailClickFails ==
    /\ pc = "detail"
    /\ failed' = failed \cup {idx}
    /\ DetailGoes(AfterFailure(idx, DetailLoopLimit(detail_limit, Len(page))))
    /\ UNCHANGED <<results, origin, enriched>>

\* The click opened panel: extract_business_info, append the record.
DetailFromPanel(panel) ==
    /\ pc = "detail"
    /\ LET info == ExtractBusinessInfo(panel, idx)
       IN  IF info = None
           THEN /\ failed' = failed \cup {idx}
                /\ UNCHANGED <<results, origin, enriched>>
           ELSE /\ failed' = failed
                /\ results' = Append(results, info[1])
                /\ origin' = Append(origin, idx)
                /\ enriched' = Append(enriched, 0)
    /\ DetailGoes(idx + 1)

DetailStepCore ==
    /\ pc = "detail"
    /\ \/ DetailClickFails
       \/ \E panel \in Panels(idx, page[idx]) : DetailFromPanel(panel)

\* One iteration of the detail-mode loop: click listing idx,
\* extract_business_info, append the record, callback("extracting").
DetailStep ==
    /\ pc = "detail"
    /\ \/ /\ DetailClickFails
          /\ UNCHANGED <<jobs, events>>
       \/ /\ \E panel \in Panels(idx, page[idx]) : DetailFromPanel(panel)
          /\ IF Len(results') = Len(results) THEN UNCHANGED <<jobs, events>>
             ELSE Callback("extracting",
                      [NoData EXCEPT !.current = idx, !.total = Len(page),
                                     !.collected = Len(results')])
    /\ UNCHANGED outerVars

\* `except Exception as e:` of scrape_maps_with_progress.
HandleExceptionCore ==
    /\ pc = "except"
    /\ pc' = "finally"
    /\ UNCHANGED <<exc, feed, browser, quit_calls, scrollVars, listVars>>

\* `except Exception as e:` callback("error", {"message": str(e)}).
HandleException ==
    /\ HandleExceptionCore
    /\ Callback("error", NoData)
    /\ UNCHANGED outerVars

\* `finally:` driver.quit(); return results.
FinallyCore ==
    /\ pc = "finally"
    /\ browser' = "quit"
    /\ quit_calls' = quit_calls + 1
    /\ pc' = "returned"
    /\ UNCHANGED <<exc, feed, scrollVars, listVars>>

\* `finally:` driver.quit(); callback("browser_closed"); return results.
Finally ==
    /\ FinallyCore
    /\ Callback("browser_closed", NoData)
    /\ UNCHANGED outerVars

\* A step of scrape_maps_with_progress with every `if callback:` block
\* taken out: the function as it runs with callback=None.
CoreNext ==
    \/ SetupDriverCore
    \/ NavigateCore
    \/ WaitFeedCore
    \/ BeginScrollCore
    \/ ScrollStepCore
    \/ CountListingsCore
    \/ ExtractListViewCore
    \/ EnrichStepCore
    \/ DetailStepCore
    \/ HandleExceptionCore
    \/ FinallyCore

\* ------------------------------------------------------------- run_scraper
CsvName == "leads.csv"

\* The except handler of run_scraper on job j.
JobFailed(j, msg) ==
    [j EXCEPT !.status = "failed", !.phase = "failed", !.error = Some(msg),
              !.logs = Append(@, "error")]

\* Lines 100-109 of run_scraper on job j.
JobCompleted(j, unique) ==
    [j EXCEPT !.status = "completed", !.phase = "completed",
              !.total_leads = Some(Len(unique)), !.csv_file = Some(CsvName),
              !.results = Some(unique), !.logs = Append(@, "completed")]

\* Lines 111-114 of run_scraper on job j.
JobCompletedEmpty(j) ==
    [j EXCEPT !.status = "completed", !.phase = "completed",
              !.total_leads = Some(0), !.results = Some(<<>>)]

\* The task found the job at every access and wrote it (pc "done"), or
\* jobs[job_id] raised KeyError: inside the try the handler's own
\* jobs[job_id] raises it again, and it leaves the task (pc "crashed").
WriteJob(new) ==
    IF JobId \in DOMAIN jobs
    THEN /\ jobs' = [jobs EXCEPT ![JobId] = new]
         /\ pc' = "done"
    ELSE /\ jobs' = jobs
         /\ pc' = "crashed"

\* After scrape_maps_with_progress returned: deduplicate, write the CSV and
\* mark the job completed (with no results: completed, zero leads, no CSV).
\* What DataFrame, makedirs or to_csv throw goes to the except handler.
RunScraperFinish ==
    /\ pc = "returned"
    /\ caller = "api"
    /\ LET unique == DeduplicateResults(results)
           j == IF JobId \in DOMAIN jobs THEN jobs[JobId] ELSE NewJob
       IN  IF results # <<>>
           THEN \/ /\ files' = files \cup {CsvName}
                   /\ WriteJob(JobCompleted(j, unique))
                \/ /\ files' = files
                   /\ WriteJob(JobFailed(j, ErrMsg))
           ELSE /\ files' = files
                /\ WriteJob(JobCompletedEmpty(j))
    /\ UNCHANGED <<remove_failed, argVars, events, exc, feed, browser,
                   quit_calls>>
    /\ UNCHANGED <<scrollVars, listVars, ddVars>>

\* `except Exception as e:` of run_scraper: the job is failed and its error
\* is str(e).
RunScraperExcept ==
    /\ pc = "raised"
    /\ caller = "api"
    /\ WriteJob(JobFailed(IF JobId \in DOMAIN jobs THEN jobs[JobId] ELSE NewJob,
                          exc[1]))
    /\ UNCHANGED <<files, remove_failed, argVars, events, exc, feed, browser,
                   quit_calls>>
    /\ UNCHANGED <<scrollVars, listVars, ddVars>>

\* ---------------------------------------------------------------- delete_job
\* del jobs[job_id]
Del(js, id) == [k \in DOMAIN js \ {id} |-> js[k]]

\* os.remove(job["csv_file"]) when the job names a CSV file and the file
\* exists; what it throws is ignored.
RemoveCsv(j) ==
    IF j.csv_file # None /\ j.csv_file[1] \in files
    THEN \/ /\ files' = files \ {j.csv_file[1]}
            /\ remove_failed' = remove_failed
         \/ /\ files' = files
            /\ remove_failed' = TRUE
    ELSE UNCHANGED <<files, remove_failed>>

\* DELETE /job/{job_id} on the event loop, while the task runs in a worker
\* thread: between two steps of the task.
DeleteJob ==
    /\ JobId \in DOMAIN jobs
    /\ RemoveCsv(jobs[JobId])
    /\ jobs' = Del(jobs, JobId)
    /\ UNCHANGED <<argVars, events, ddVars>>
    /\ UNCHANGED coreVars

\* delete_job runs between two statements of run_scraper that read
\* jobs[job_id]: the next one raises KeyError, and so does the handler's
\* (lines 75-77 are outside the try).  In lines 98-109 the CSV file is
\* written, and delete_job reads csv_file before or after line 103 set it.
DeleteDuringRunScraper ==
    /\ JobId \in DOMAIN jobs
    /\ pc \in {"queued", "returned", "raised"}
    /\ IF pc = "returned" /\ results # <<>>
       THEN \/ \* csv_file read before line 103: the file stays
               /\ files' = files \cup {CsvName}
               /\ remove_failed' = remove_failed
            \/ \* read after line 103: the file is removed
               /\ files' = files \ {CsvName}
               /\ remove_failed' = remove_failed
            \/ \* read after line 103: os.remove throws
               /\ files' = files \cup {CsvName}
               /\ remove_failed' = TRUE
       ELSE UNCHANGED <<files, remove_failed>>
    /\ jobs' = Del(jobs, JobId)
    /\ pc' = "crashed"
    /\ UNCHANGED <<argVars, events, exc, feed, browser, quit_calls, ddVars>>
    /\ UNCHANGED <<scrollVars, listVars>>

\* ------------------------------------------- progress_callback and delete_job
\* progress_callback found the job (`if job_id not in jobs` at line 51 was
\* false), delete_job then removed it, and the callback's next
\* jobs[job_id] raised KeyError into the scraper.  The job has no csv_file
\* while it is scraped, so delete_job removes no file.  Every later
\* invocation of the callback returns at line 52.
RaceEvents(evs) ==
    /\ jobs' = Del(jobs, JobId)
    /\ events' = events \o evs

\* The KeyError is raised at a call site no handler of the scraper covers
\* on the way (to) or is swallowed there.
RaiseTo(to) ==
    /\ pc' = to
    /\ exc' = Some(KeyErr)

\* callback("browser_starting") raises before the try is entered.
RaceBrowserStarting ==
    /\ pc = "called"
    /\ RaceEvents(<<"browser_starting">>)
    /\ RaiseTo("raised")
    /\ UNCHANGED <<feed, browser, quit_calls, scrollVars, listVars>>

\* callback("navigating"), callback("scrolling", 0), callback("extracting_fast")
\* raise inside the try.
RaceInTry ==
    /\ \/ pc = "navigate" /\ RaceEvents(<<"navigating">>)
       \/ pc = "feed_found" /\ RaceEvents(<<"scrolling">>)
       \/ pc = "extract" /\ RaceEvents(<<"extracting_fast">>)
    /\ RaiseTo("except")
    /\ UNCHANGED <<feed, browser, quit_calls, scrollVars, listVars>>

\* callback("waiting") raises inside the inner try: the bare except takes
\* it for a missing feed and returns [] without having waited for the feed.
RaceWaiting ==
    /\ pc = "wait_feed"
    /\ RaceEvents(<<"waiting", "error">>)
    /\ pc' = "finally"
    /\ UNCHANGED <<exc, feed, browser, quit_calls, scrollVars, listVars>>

\* The feed is missing and callback("error") raises inside the bare except.
RaceFeedError ==
    /\ pc = "wait_feed"
    /\ feed' = "missing"
    /\ RaceEvents(<<"waiting", "error">>)
    /\ RaiseTo("except")
    /\ UNCHANGED <<browser, quit_calls, scrollVars, listVars>>

\* callback("scroll_complete") or callback("scrolling") raises in
\* scroll_results, after the iteration's measurement.
RaceScroll ==
    /\ pc = "scroll"
    /\ scroll_count < ScrollCap
    /\ \E new_height \in 0..MaxHeight :
         /\ Measure(new_height)
         /\ \/ /\ ScrollDone(new_height, last_height, no_change_count')
               /\ RaceEvents(<<"scroll_complete">>)
            \/ /\ ~ScrollDone(new_height, last_height, no_change_count')
               /\ scroll_count' % ProgressEvery = 0
               /\ RaceEvents(<<"scrolling">>)
    /\ RaiseTo("except")
    /\ UNCHANGED <<feed, browser, quit_calls, listVars>>

\* callback("listings_found") raises.
RaceListingsFound ==
    /\ pc = "count"
    /\ \E pg \in Pages : FoundListings(pg)
    /\ RaceEvents(<<"listings_found">>)
    /\ RaiseTo("except")
    /\ UNCHANGED <<feed, browser, quit_calls>>

\* callback("extracting_list") raises inside extract_from_list_view, whose
\* outer except returns the list as it is then: empty.
RaceExtractingList ==
    /\ ExtractWith(FALSE)
    /\ RaceEvents(<<"extracting_fast", "extracting_list">> \o
                  (IF pc' = "enrich" THEN <<"enriching">> ELSE <<>>))

\* callback("enriching") raises after extract_from_list_view returned.
RaceEnriching ==
    /\ pc = "extract"
    /\ EnrichLimit(detail_limit, Len(page)) >= 1
    /\ \E source_ok \in BOOLEAN :
         /\ Extracted(ExtractFromListView(page, source_ok))
         /\ RaceEvents(<<"extracting_fast">> \o
                       (IF source_ok THEN <<"extracting_list">> ELSE <<>>) \o
                       <<"enriching">>)
    /\ RaiseTo("except")
    /\ UNCHANGED <<feed, browser, quit_calls, scrollVars>>

\* callback("enriching_progress") raises inside the per-listing try:
\* `except Exception: continue`.
RaceEnrichingProgress ==
    /\ pc = "enrich"
    /\ \E panel \in Panels(idx, page[idx]) : EnrichFromPanel(panel)
    /\ RaceEvents(<<"enriching_progress">>)

\* callback("error") raises inside the top-level except: the finally quits
\* the browser and the KeyError leaves the function.
RaceTopLevelError ==
    /\ pc = "except"
    /\ RaceEvents(<<"error", "browser_closed">>)
    /\ RaiseTo("raised")
    /\ browser' = "quit"
    /\ quit_calls' = quit_calls + 1
    /\ UNCHANGED <<feed, scrollVars, listVars>>

\* callback("browser_closed") raises inside the finally, after driver.quit():
\* the KeyError leaves the function in place of `return results`.
RaceBrowserClosed ==
    /\ pc = "finally"
    /\ RaceEvents(<<"browser_closed">>)
    /\ RaiseTo("raised")
    /\ browser' = "quit"
    /\ quit_calls' = quit_calls + 1
    /\ UNCHANGED <<feed, scrollVars, listVars>>

\* One step of the scraper whose callback invocation lost the race with
\* delete_job.
CallbackDeleteRace ==
    /\ caller = "api"
    /\ has_callback
    /\ JobId \in DOMAIN jobs
    /\ \/ RaceBrowserStarting
       \/ RaceInTry
       \/ RaceWaiting
       \/ RaceFeedError
       \/ RaceScroll
       \/ RaceListingsFound
       \/ RaceExtractingList
       \/ RaceEnriching
       \/ RaceEnrichingProgress
       \/ RaceTopLevelError
       \/ RaceBrowserClosed
    /\ UNCHANGED outerVars

Next ==
    \/ StartScrape
    \/ RunScraperBegin
    \/ DirectCall
    \/ SetupDriver
    \/ Navigate
    \/ WaitFeed
    \/ BeginScroll
    \/ ScrollStep
    \/ CountListings
    \/ ExtractListView
    \/ EnrichStep
    \/ DetailStep
    \/ HandleException
    \/ Finally
    \/ RunScraperFinish
    \/ RunScraperExcept
    \/ DeleteJob
    \/ DeleteDuringRunScraper
    \/ CallbackDeleteRace

Spec == Init /\ [][Next]_vars

\* The run up to the exit of scroll_results, with the loop never suspended
\* for ever (its sleeps return).
ScrollNext ==
    \/ StartScrape
    \/ RunScraperBegin
    \/ DirectCall
    \/ SetupDriver
    \/ Navigate
    \/ WaitFeed
    \/ BeginScroll
    \/ ScrollStep

ScrollSpec == Init /\ [][ScrollNext]_vars /\ WF_vars(ScrollStep)

\* ------------------------------------------------------------- properties
\* The value the k-th measurement was compared with: the measurement before
\* it, and the initial last_height for the first.
ComparedWith(k) == IF k = 1 THEN LastHeightInit ELSE heights[k - 1]

\* C1: whenever the loop of scroll_results exits (pc = "count" is the state
\* right after its break), each of the last 5 measurements was equal to the
\* value it was compared with (the measurement before it; the initial
\* last_height for a first measurement), and no_change_count is 5: the loop
\* never exits on an iteration whose height differs from the previous one.
ScrollExitsOnlyWhenStable ==
    pc = "count" =>
        /\ Len(heights) >= StableChecks
        /\ no_change_count = StableChecks
        /\ \A k \in (Len(heights) - StableChecks + 1)..Len(heights) :
               heights[k] = ComparedWith(k)

\* C1 witness: the loop has exited after the height changed at least once.
ScrollExitAfterGrowth ==
    /\ pc = "count"
    /\ changes >= 1
    /\ Len(heights) > StableChecks

\* C2: once scroll_results is in its loop it leaves it (by its break, or by
\* an exception of the driver), for every feed whose height changes finitely
\* often.
ScrollTerminates == (pc = "scroll") ~> (pc \in {"count", "except"})

\* C2 witness: the feed height is 0 from the first measurement and the loop
\* has exited after 5 measurements.
ScrollExitAtZeroHeight ==
    /\ pc = "count"
    /\ heights = [k \in 1..StableChecks |-> 0]

\* C3: when scrape_maps_with_progress has returned or raised and a browser
\* was launched, driver.quit() has been called exactly once.
BrowserReleasedOnEveryPath ==
    (pc \in {"returned", "raised", "done"} /\ browser # "none")
        => quit_calls = 1

\* C4: when the top-level handler of scrape_maps_with_progress caught an
\* exception (the run went through except and finally), the finished job's
\* error field holds the exception's message and the browser has been quit.
CaughtErrorIsJobError ==
    (pc = "done" /\ exc # None /\ quit_calls = 1 /\ JobId \in DOMAIN jobs)
        => (jobs[JobId].error = exc /\ browser = "quit")

\* Record k of the result list was produced or updated by the detail panel.
FromDetail(k) == ~fast_mode \/ enriched[k] > 0

EnrichesExactlyTheFirst ==
    ( /\ pc = "returned"
      /\ fast_mode
      /\ detail_limit > 0
      /\ exc = None
      /\ feed = "found"
      /\ primary_count = Len(page)
      /\ failed = {} )
    => /\ Len(results) = Len(page)
       /\ \A k \in 1..Len(results) :
            enriched[k] = IF k <= Min(detail_limit, Len(page)) THEN 1 ELSE 0

\* C7: no record of the result list, at any point of any run and in either
\* mode, and no record stored in the job, has an empty business_name.
NoEmptyBusinessName ==
    /\ \A k \in 1..Len(results) : results[k].business_name # <<>>
    /\ \A j \in DOMAIN jobs :
         jobs[j].results # None =>
             \A k \in 1..Len(jobs[j].results[1]) :
                 jobs[j].results[1][k].business_name # <<>>

\* C7 witness: a scrape returned records from a page that holds a card whose
\* name text is only whitespace.
RecordsBesideBlankName ==
    /\ pc = "returned"
    /\ Len(results) >= 1
    /\ \E i \in 1..Len(page) :
         ~page[i].raises /\ page[i].name # <<>> /\ Strip(page[i].name) = <<>>

\* C8 as claimed: the fallback ran only after a selector-based extraction of
\* zero records, and on a page with at least one listing anchor it returned
\* at least one record, every record with a name and a link.
FallbackAlwaysYields ==
    fallback_ran =>
        /\ primary_count = 0
        /\ Len(page) >= 1 =>
             /\ Len(results) >= 1
             /\ \A k \in 1..Len(results) :
                  /\ results[k].business_name # <<>>
                  /\ results[k].google_maps_link # <<>>

\* C8 as amended: the fallback ran only after a selector-based extraction of
\* zero records, and it returned exactly one record per listing anchor with a
\* non-empty aria-label, in page order, whose business_name is that label
\* and whose google_maps_link is the anchor's href (empty when the anchor
\* has none); so it returns at least one record when some anchor is
\* labelled, and none when no anchor is.
FallbackYieldsLabelledAnchors ==
    fallback_ran =>
        /\ primary_count = 0
        /\ Len(results) = Cardinality({i \in 1..Len(page) : page[i].aria # <<>>})
        /\ Len(origin) = Len(results)
        /\ \A k \in 1..Len(results) :
             /\ origin[k] \in 1..Len(page)
             /\ page[origin[k]].aria # <<>>
             /\ results[k].business_name = page[origin[k]].aria
             /\ results[k].google_maps_link = page[origin[k]].href
             /\ \A m \in 1..(k - 1) : origin[m] < origin[k]

\* C8 witness: the fallback ran on a page with a labelled anchor and an
\* unlabelled one, and returned a record.
FallbackOnMixedAnchors ==
    /\ fallback_ran
    /\ Len(results) >= 1
    /\ \E i \in 1..Len(page) : page[i].aria = <<>>

\* C9: the output of deduplicate_results is the subsequence of its input
\* made of the first record of every (business_name, address) key: in input
\* order, no key twice, every key of the input present.
DedupKey(r) == <<r.business_name, r.address>>

FirstOfKey(rs) ==
    {k \in 1..Len(rs) : \A j \in 1..(k - 1) : DedupKey(rs[j]) # DedupKey(rs[k])}

DedupKeepsFirstOfEachKey ==
    pc = "dedup_done" =>
        /\ Len(dd_out) = Cardinality(FirstOfKey(dd_in))
        /\ \A a, b \in 1..Len(dd_out) :
             a # b => DedupKey(dd_out[a]) # DedupKey(dd_out[b])
        /\ \A k \in 1..Len(dd_in) :
             \E a \in 1..Len(dd_out) : DedupKey(dd_out[a]) = DedupKey(dd_in[k])
        /\ \E f \in [1..Len(dd_out) -> 1..Len(dd_in)] :
             /\ \A a \in 1..Len(dd_out) :
                  f[a] \in FirstOfKey(dd_in) /\ dd_out[a] = dd_in[f[a]]
             /\ \A a, b \in 1..Len(dd_out) : a < b => f[a] < f[b]

\* C9 witness: two records of one key that differ elsewhere, separated by a
\* record of another key; the first of the two was kept.
DedupDroppedLaterDuplicate ==
    /\ pc = "dedup_done"
    /\ Len(dd_in) = 3
    /\ DedupKey(dd_in[1]) = DedupKey(dd_in[3])
    /\ dd_in[1] # dd_in[3]
    /\ DedupKey(dd_in[1]) # DedupKey(dd_in[2])
    /\ dd_out = <<dd_in[1], dd_in[2]>>

\* C10: a run that met no top-level exception has handled every listing its
\* loops cover, whatever listings failed: the list-view extraction returned a
\* record for every card that did not throw and has a name; the enrichment
\* pass clicked each of the first min(detail_limit, N) listings; the detail
\* loop clicked every listing up to its limit and returned a record, in
\* listing order, for every one whose click and panel did not fail.
ListingFailureNeverAborts ==
    (pc = "returned" /\ exc = None /\ feed = "found") =>
        /\ (fast_mode /\ (primary_count > 0 \/ fallback_ran)) =>
             \A i \in 1..Len(page) :
                 Emits(page[i]) =>
                     \E k \in 1..Len(results) :
                         /\ origin[k] = i
                         /\ results[k].business_name = Strip(page[i].name)
        /\ fast_mode => clicked = 1..EnrichLimit(detail_limit, Len(page))
        /\ ~fast_mode =>
             /\ clicked = 1..DetailLoopLimit(detail_limit, Len(page))
             /\ \A i \in clicked \ failed : \E k \in 1..Len(results) : origin[k] = i
             /\ Len(results) = Cardinality(clicked \ failed)

\* C10 witness: the first card threw in the list-view extraction and the
\* click on the first listing failed, and the second listing was extracted
\* and enriched all the same.
LaterListingSurvivesFailure ==
    /\ pc = "returned"
    /\ fast_mode
    /\ Len(page) = 2
    /\ page[1].raises
    /\ origin = <<2>>
    /\ 1 \in failed
    /\ enriched = <<1>>

\* Event e is among the events in sequence evs.
Among(e, evs) == \E k \in 1..Len(evs) : evs[k] = e

\* C11: once the bounded wait for the feed has failed, a supplied callback
\* has been invoked with "error" (and the job, while it is in the table,
\* has it in its log); nothing was scrolled, counted, extracted or clicked
\* and the result list is empty; the function does not raise; no CSV file
\* is written; and when the task is over, the job in the table is
\* completed with 0 leads, an empty result list and no csv_file.
FeedMissingIsReportedNotFatal ==
    feed = "missing" =>
        /\ has_callback => Among("error", events)
        /\ JobId \in DOMAIN jobs => Among("error", jobs[JobId].logs)
        /\ heights = <<>> /\ scroll_count = 0 /\ changes = 0
        /\ page = <<>> /\ results = <<>> /\ clicked = {}
        /\ primary_count = 0 /\ ~fallback_ran
        /\ pc # "raised"
        /\ files = {}
        /\ (pc = "done" /\ JobId \in DOMAIN jobs) =>
             /\ jobs[JobId].status = "completed"
             /\ jobs[JobId].total_leads = Some(0)
             /\ jobs[JobId].results = Some(<<>>)
             /\ jobs[JobId].csv_file = None
             /\ jobs[JobId].error = None

Statuses == {"pending", "running", "completed", "failed"}

\* The status of every job in the table is one of the four.
StatusInEnum == \A j \in DOMAIN jobs : jobs[j].status \in Statuses

\* In one step a job enters the table pending, and the status of a job in
\* the table stays or moves pending -> running -> completed | failed.
StatusMovesForward ==
    /\ (JobId \notin DOMAIN jobs /\ JobId \in DOMAIN jobs')
          => jobs'[JobId].status = "pending"
    /\ (JobId \in DOMAIN jobs /\ JobId \in DOMAIN jobs')
          => \/ jobs'[JobId].status = jobs[JobId].status
             \/ <<jobs[JobId].status, jobs'[JobId].status>> \in
                  {<<"pending", "running">>, <<"running", "completed">>,
                   <<"running", "failed">>}

\* The step that ends the task of a job that had started running leaves the
\* job completed or failed.  (has_callback is set where run_scraper marks
\* the job running; after the task's last step nothing writes a status.)
TaskEndsJobTerminal ==
    (has_callback /\ pc \notin {"done", "crashed"}
                  /\ pc' \in {"done", "crashed"})
        => /\ JobId \in DOMAIN jobs'
           /\ jobs'[JobId].status \in {"completed", "failed"}

\* C12: a job's status is always pending, running, completed or failed; it
\* only moves pending -> running -> (completed | failed) and a completed
\* or failed status never changes; and the task of every job that started
\* running ends with the job completed or failed.
JobLifecycle ==
    /\ []StatusInEnum
    /\ [][StatusMovesForward /\ TaskEndsJobTerminal]_vars

\* C13: once delete_job has returned success (the only way the id of a
\* started job leaves the table), and its os.remove did not fail, no CSV
\* file of that job exists, in every later state and whatever the job's
\* task does.
DeletedJobLeavesNoCsv ==
    (caller = "api" /\ JobId \notin DOMAIN jobs /\ ~remove_failed)
        => files = {}

\* The positions inside scrape_maps_with_progress.
ScrapePcs ==
    {"called", "navigate", "wait_feed", "feed_found", "scroll", "count",
     "extract", "enrich", "detail", "except", "finally"}

\* C14: whatever callback is supplied, every step taken inside
\* scrape_maps_with_progress changes the function's own state (position,
\* exception, browser, quit calls, page, result list) as a step of the
\* function run with callback=None can change it, or not at all: the same
\* browser actions, the same result list, the same release of the browser.
CallbackIsPureObserver ==
    [][(pc \in ScrapePcs) => (CoreNext \/ UNCHANGED coreVars)]_vars

\* C15: the background task run_scraper never ends with a KeyError raised
\* by an access to the job table, however delete_job interleaves with it
\* and with progress_callback.
TaskNeverDiesOfKeyError == pc # "crashed"

\* ----------------------------------------------- deduplicate_results alone
DedupRecords ==
    { [business_name |-> b, address |-> a, phone |-> p, website |-> <<>>,
       has_website |-> "Unknown", google_maps_link |-> <<>>] :
        b \in {<<"A">>, <<"B">>}, a \in {<<>>, <<"s">>}, p \in {<<>>, <<1>>} }

DedupInputs == UNION { [1..n -> DedupRecords] : n \in 0..MaxDedupLen }

DedupInit ==
    /\ BaseInit
    /\ pc = "dedup"
    /\ dd_in \in DedupInputs
    /\ dd_out = <<>>

DedupCall ==
    /\ pc = "dedup"
    /\ dd_out' = DeduplicateResults(dd_in)
    /\ pc' = "dedup_done"
    /\ UNCHANGED <<jobVars, argVars, events, exc, feed, browser, quit_calls,
                   dd_in>>
    /\ UNCHANGED <<scrollVars, listVars>>

DedupNext == DedupCall

DedupSpec == DedupInit /\ [][DedupNext]_vars

====
